---- MODULE Spec2Model ----
(***************************************************************************)
(* Stress harness of scripts/stress_test: run_test builds a session plan,  *)
(* launches one coroutine per simulated miner under an asyncio.Semaphore,  *)
(* every session runs challenge -> submit -> enroll through                *)
(* _perform_step_with_retry, and asyncio.gather hands the outcomes to      *)
(* print_summary.  A sleep or a pending request is a position of the       *)
(* coroutine that ends at some later step, after the seconds the timing of *)
(* the run allows, counted by a clock per session.  The payloads           *)
(* are those of miner_simulator.py; main of run_stress_test.py writes the  *)
(* report after run_test and may be interrupted by the operator.           *)
(***************************************************************************)
EXTENDS Integers, Sequences, FiniteSets, TLC

VARIABLES
    args,             \* arguments of StressHarness(...) and run_test(...)
    phase,            \* position of run_test
    semaphore,        \* value of self.semaphore (free permits)
    force_ids,        \* run_test: force_ids[i]
    malformed_flags,  \* run_test: malformed_flags[i]
    delay,            \* run_test: delay handed to _delayed_session
    simulator,        \* run_test: the MinerSimulator of every session
    waited,           \* history: seconds slept in _delayed_session
    pc,               \* position of every session coroutine
    step,             \* name of the step a session is performing
    attempt,          \* loop variable i of _perform_step_with_retry
    backoff,          \* local backoff of _perform_step_with_retry
    payload,          \* payload of the request in flight
    reply,            \* resp of the last request (status, body or fault)
    res,              \* value returned by the last _perform_step_with_retry
    stats,            \* the session's stats dict
    sent,             \* history: requests sent by the session, per step
    slept,            \* history: backoff sleeps of the session, in order
    order,            \* history: sessions in order of completion
    results,          \* self.results
    summary,          \* what print_summary printed
    target,           \* the target node: the answers it may give
    throttle,         \* 429 answers the target may still give
    clock,            \* time.perf_counter() - start_total of each session
    timing            \* how long the awaits of the run may take

vars == <<args, phase, semaphore, force_ids, malformed_flags, delay, simulator,
          waited, pc, step, attempt, backoff, payload, reply, res, stats, sent,
          slept, order, results, summary, target, throttle, clock, timing>>

runVars == <<args, phase, force_ids, malformed_flags, delay, results, summary,
             target, timing>>

----------------------------------------------------------------------------
(* Bounds of the model *)

MaxMiners == 2
MaxConcurrency == 2
MaxThrottle == 1
MaxPlanMiners == 10
MaxResults == 5
MaxPerError == 2
MaxLatency == 2
MaxLag == 1
MaxTotalTime == 5

(* Program constants *)

max_retries == 5
base_backoff == 2
epoch_delay == 5
malformed_stride == 5
top_errors == 5

Steps == <<"challenge", "submit", "enroll">>
StepNames == {"challenge", "submit", "enroll"}

----------------------------------------------------------------------------
(* Values *)

NoId == [kind |-> "none", n |-> 0]
SimId(i) == [kind |-> "sim", n |-> i]
base_id == [kind |-> "duplicate-miner", n |-> 0]

NoError == "<absent>"
ErrMaxRetries == "Max retries exceeded (429)"
ErrHttp == "HTTP <status>: <text>"
ErrTransport == "str(transport exception)"
ErrJson == "str(JSONDecodeError)"
ErrAttribute == "str(AttributeError)"
ErrType == "str(TypeError)"
ErrSubmit == "Submit rejected: <res>"
ErrEnroll == "Enroll failed: <res>"

(* A parsed JSON body, by what the harness reads of it: whether it is a    *)
(* dict, which of the keys it reads are present, and the truth of "ok".    *)
JsonVal(j, k, o) == [json |-> j, keys |-> k, ok |-> o]
None == JsonVal("none", {}, FALSE)
BodyFull == JsonVal("dict", {"ok", "nonce"}, TRUE)
BodyOk == JsonVal("dict", {"ok"}, TRUE)
BodyRejected == JsonVal("dict", {"ok", "error"}, FALSE)
BodyEmpty == JsonVal("dict", {}, FALSE)
BodyList == JsonVal("list", {}, FALSE)
BodyInvalid == JsonVal("invalid", {}, FALSE)

Bodies == {BodyFull, BodyOk, BodyRejected, BodyEmpty, BodyList, BodyInvalid}

Statuses == {200, 400, 403, 429, 500}

Response(f, s, b) == [fault |-> f, status |-> s, body |-> b]
NoReply == Response(FALSE, 0, None)
Fault == Response(TRUE, 0, None)

Replies ==
    {Response(FALSE, s, b) : s \in {200, 400, 403}, b \in Bodies}
        \cup {Response(FALSE, 429, BodyRejected), Response(FALSE, 500, BodyInvalid), Fault}

(* Python truthiness of a value returned by _perform_step_with_retry. *)
Truthy(v) == \/ v.json = "list"
             \/ v.json = "dict" /\ v.keys # {}

(* bool(v.get("ok")) for a dict v. *)
GetOk(v) == "ok" \in v.keys /\ v.ok

Corruptions == {"missing_nonce", "bad_commitment", "wrong_arch", "corrupt_json"}

----------------------------------------------------------------------------
(* miner_simulator.py: MinerSimulator and the payloads it builds *)

sample_len == 12

(* list(ARCH_PROFILES.keys()) *)
ArchKeys == <<"g4", "g5", "apple_silicon", "modern_x86">>

ARCH_PROFILES ==
    [g4 |-> [model |-> "PowerPC G4 (7447A)", family |-> "PowerPC"],
     g5 |-> [model |-> "PowerPC G5 (970MP)", family |-> "PowerPC"],
     apple_silicon |-> [model |-> "Apple M2 Max", family |-> "ARM64"],
     modern_x86 |-> [model |-> "AMD Ryzen 9 7950X", family |-> "x86_64"]]

(* _generate_wallet, the serial and the hostname: values unique to the     *)
(* simulator, the hostname built from the miner_id of the constructor.     *)
Wallet(i) == [kind |-> "wallet", n |-> i]
Serial(i) == [kind |-> "serial", n |-> i]
Hostname(id) == [kind |-> "host", of |-> id]

(* What random.uniform and random.gauss give generate_entropy_report: the  *)
(* twelve samples, all at the base time or spread around it, and the       *)
(* variance_ns, which is drawn and not computed from the samples.          *)
FlatSamples(b) == [k \in 1..sample_len |-> b]
SpreadSamples(b) == [k \in 1..sample_len |-> IF k % 2 = 0 THEN b + 500 ELSE b - 500]

RandomDraws ==
    [samples : {FlatSamples(20000), SpreadSamples(25000)},
     variance_ns : {100000, 500000}]

FixedDraws == [samples |-> SpreadSamples(25000), variance_ns |-> 100000]

(* MinerSimulator() number i with the outcomes of its random calls. *)
MinerSimulator(i, arch, draws) ==
    [arch_key |-> arch, profile |-> ARCH_PROFILES[arch], miner_id |-> SimId(i),
     wallet |-> Wallet(i), serial |-> Serial(i),
     hostname |-> Hostname(SimId(i)), random |-> draws]

(* A payload handed to _perform_step_with_retry: a dict or a str. *)
PyDict(d) == [type |-> "dict", value |-> d]
PyStr(s) == [type |-> "str", value |-> s]
NoPayload == PyStr("<none>")
EmptyDict == PyDict([k \in {} |-> 0])

RECURSIVE Sum(_)
Sum(s) == IF s = <<>> THEN 0 ELSE Head(s) + Sum(Tail(s))

Min(s) == CHOOSE x \in {s[k] : k \in DOMAIN s} : \A k \in DOMAIN s : x <= s[k]
Max(s) == CHOOSE x \in {s[k] : k \in DOMAIN s} : \A k \in DOMAIN s : x >= s[k]

(* hashlib.sha256(...).hexdigest(), taken as free of collisions, and a     *)
(* digest field that holds some other text.                                *)
Sha256(s) == [kind |-> "sha256", of |-> s]
NotAHash(text) == [kind |-> "text", of |-> <<text>>]

(* json.dumps(entropy, sort_keys=True): the items in ascending key order. *)
EntropyKeys ==
    <<"max_ns", "mean_ns", "min_ns", "sample_count", "samples_preview",
      "variance_ns">>

DumpsSortKeys(d) == [k \in 1..Len(EntropyKeys) |-> <<EntropyKeys[k], d[EntropyKeys[k]]>>]

Entropy(draws) ==
    [mean_ns |-> Sum(draws.samples) \div Len(draws.samples),
     variance_ns |-> draws.variance_ns,
     min_ns |-> Min(draws.samples), max_ns |-> Max(draws.samples),
     sample_count |-> 48, samples_preview |-> draws.samples]

(* Faulty variant: the commitment leaves the wallet out of the hash. *)
GenerateEntropyReport_NoWallet(sim, nonce) ==
    [nonce |-> nonce,
     commitment |-> Sha256(<<nonce, DumpsSortKeys(Entropy(sim.random))>>),
     derived |-> Entropy(sim.random),
     entropy_score |-> Entropy(sim.random).variance_ns]

GenerateEntropyReport(sim, nonce) ==
    [nonce |-> nonce,
     commitment |-> Sha256(<<nonce, sim.wallet, DumpsSortKeys(Entropy(sim.random))>>),
     derived |-> Entropy(sim.random),
     entropy_score |-> Entropy(sim.random).variance_ns]

(* Faulty variant: the payload names the simulator by its wallet. *)
BuildAttestationPayload_WalletAsId(sim, nonce) ==
    PyDict([miner |-> sim.wallet, miner_id |-> sim.wallet, nonce |-> nonce,
            report |-> GenerateEntropyReport(sim, nonce),
            device |-> [family |-> sim.profile.family, arch |-> sim.arch_key,
                        model |-> sim.profile.model, cpu |-> sim.profile.model,
                        serial |-> sim.serial],
            signals |-> [hostname |-> sim.hostname],
            fingerprint |-> [all_passed |-> TRUE, serial |-> sim.serial]])

(* build_attestation_payload, without the fields drawn at random that      *)
(* nothing reads (cores, memory_gb, p95_ns) and the MAC address.           *)
BuildAttestationPayload(sim, nonce) ==
    PyDict([miner |-> sim.wallet, miner_id |-> sim.miner_id, nonce |-> nonce,
            report |-> GenerateEntropyReport(sim, nonce),
            device |-> [family |-> sim.profile.family, arch |-> sim.arch_key,
                        model |-> sim.profile.model, cpu |-> sim.profile.model,
                        serial |-> sim.serial],
            signals |-> [hostname |-> sim.hostname],
            fingerprint |-> [all_passed |-> TRUE, serial |-> sim.serial]])

BuildEnrollPayload(sim) ==
    PyDict([miner_pubkey |-> sim.wallet, miner_id |-> sim.miner_id,
            device |-> [family |-> sim.profile.family, arch |-> sim.arch_key]])

(* del d[k] *)
DelKey(d, k) == [x \in DOMAIN d \ {k} |-> d[x]]

(* Faulty variant: the missing-nonce strategy also strips the report. *)
BuildMalformedPayload_StripReport(sim, nonce, choice) ==
    LET p == BuildAttestationPayload(sim, nonce).value IN
    CASE choice = "missing_nonce" ->
           PyDict(DelKey([p EXCEPT !.report.commitment = NotAHash("")], "nonce"))
      [] choice = "bad_commitment" ->
           PyDict([p EXCEPT !.report.commitment = NotAHash("invalid_hash_value")])
      [] choice = "wrong_arch" ->
           PyDict([p EXCEPT !.device.arch = "intel-i9-but-really-g4"])
      [] OTHER -> PyStr("{\"invalid\": json...")

(* build_malformed_payload with the outcome of its random.choice. *)
BuildMalformedPayload(sim, nonce, choice) ==
    LET p == BuildAttestationPayload(sim, nonce).value IN
    CASE choice = "missing_nonce" -> PyDict(DelKey(p, "nonce"))
      [] choice = "bad_commitment" ->
           PyDict([p EXCEPT !.report.commitment = NotAHash("invalid_hash_value")])
      [] choice = "wrong_arch" ->
           PyDict([p EXCEPT !.device.arch = "intel-i9-but-really-g4"])
      [] OTHER -> PyStr("{\"invalid\": json...")

(* The structural invariants of a well-formed payload.  Those on the      *)
(* fields are invariants of a structured payload; a result that is no     *)
(* structured payload has no fields and breaks the one on the encoding.   *)

Structured(p) == p.type = "dict"

NoncePresent(d) == "nonce" \in DOMAIN d

CommitmentReproducible(d) ==
    d.report.commitment =
        Sha256(<<d.report.nonce, d.miner, DumpsSortKeys(d.report.derived)>>)

ArchConsistent(d) ==
    \E k \in DOMAIN ArchKeys :
        /\ d.device.arch = ArchKeys[k]
        /\ d.device.family = ARCH_PROFILES[ArchKeys[k]].family

Violations(p) ==
    IF ~Structured(p) THEN {"encoding"}
    ELSE {x \in {"nonce"} : ~NoncePresent(p.value)}
           \cup {x \in {"commitment"} : ~CommitmentReproducible(p.value)}
           \cup {x \in {"arch"} : ~ArchConsistent(p.value)}

(* The nonce a challenge answer carries. *)
ChallengeNonce == "nonce-1"

----------------------------------------------------------------------------
(* StressHarness.__init__ and the asyncio.Semaphore *)

SemaphoreInit(c) == c

(* Faulty variant: the gate lets every session in. *)
SemAcquirable_Always(v) == TRUE

SemAcquirable(v) == v > 0

(* Faulty variant: entering the gate takes no permit. *)
SemAcquire_NoTake(v) == v

SemAcquire(v) == v - 1

(* Faulty variant: a permit that is never given back. *)
SemRelease_Lost(v) == v

SemRelease(v) == v + 1

----------------------------------------------------------------------------
(* run_test: the session plan *)

NumDupes(n, pct) == (n * pct) \div 100

(* force_ids after the loop of lines 123-124; index i is launch index i-1. *)
ForceIds(n, pct) ==
    [i \in 1..n |-> IF pct > 0 /\ i - 1 < NumDupes(n, pct) THEN base_id ELSE NoId]

(* Faulty variant: every fifth session counted from one. *)
MalformedFlags_FromOne(n, enabled) ==
    [i \in 1..n |-> enabled /\ i % malformed_stride = 0]

MalformedFlags(n, enabled) ==
    [i \in 1..n |-> enabled /\ (i - 1) % malformed_stride = 0]

(* Faulty variant: the session at the midpoint is delayed as well. *)
Delays_FromMidpoint(n, enabled) ==
    [i \in 1..n |-> IF enabled /\ i - 1 >= n \div 2 THEN epoch_delay ELSE 0]

Delays(n, enabled) ==
    [i \in 1..n |-> IF enabled /\ i - 1 > n \div 2 THEN epoch_delay ELSE 0]

(* uuid is used on line 122 and never imported by harness.py. *)
UuidIsImported == FALSE

(* The empty dict of stats["steps"]: step name -> seconds. *)
NoSteps == [s \in {} |-> 0]

NoStats ==
    [miner_id |-> NoId, success |-> FALSE, steps |-> NoSteps, total_time |-> 0,
     retries |-> 0, error |-> NoError, is_duplicate |-> FALSE,
     is_malformed |-> FALSE, notes |-> FALSE]

NoSent == [s \in StepNames |-> 0]

Sessions == 1..args.num_miners

(* Line 114.  random.choice gives the simulators of a run the archetypes   *)
(* in turn; a session on its own is run on each of them.                   *)
Simulators(n) ==
    [i \in 1..n |-> MinerSimulator(i, ArchKeys[((i - 1) % Len(ArchKeys)) + 1], FixedDraws)]

ResetSessions(n) ==
    /\ simulator' = Simulators(n)
    /\ waited' = [i \in 1..n |-> 0]
    /\ clock' = [i \in 1..n |-> 0]
    /\ pc' = [i \in 1..n |-> "start"]
    /\ step' = [i \in 1..n |-> "none"]
    /\ attempt' = [i \in 1..n |-> 0]
    /\ backoff' = [i \in 1..n |-> 0]
    /\ payload' = [i \in 1..n |-> NoPayload]
    /\ reply' = [i \in 1..n |-> NoReply]
    /\ res' = [i \in 1..n |-> None]
    /\ stats' = [i \in 1..n |-> NoStats]
    /\ sent' = [i \in 1..n |-> NoSent]
    /\ slept' = [i \in 1..n |-> <<>>]
    /\ order' = <<>>

RunTestPlan ==
    /\ phase = "plan"
    /\ IF args.duplicate_pct > 0 /\ ~UuidIsImported
         THEN /\ phase' = "NameError"
              /\ UNCHANGED <<force_ids, malformed_flags, delay, simulator,
                             waited, pc, step, attempt, backoff, payload,
                             reply, res, stats, sent, slept, order, clock>>
         ELSE /\ phase' = "gather"
              /\ force_ids' = ForceIds(args.num_miners, args.duplicate_pct)
              /\ malformed_flags' =
                     MalformedFlags(args.num_miners, args.test_malformed)
              /\ delay' = Delays(args.num_miners, args.test_epoch_boundary)
              /\ ResetSessions(args.num_miners)
    /\ UNCHANGED <<args, semaphore, results, summary, target, throttle, timing>>

----------------------------------------------------------------------------
(* _delayed_session and the head of run_miner_session *)

(* Faulty variant: the forced id never reaches the simulator. *)
OverrideId_Never(sim, fid) == sim

(* Lines 21-22, for a forced id that is None or a name. *)
OverrideId(sim, fid) == IF fid # NoId THEN [sim EXCEPT !.miner_id = fid] ELSE sim

NewStats(sim, fid, mal) ==
    [miner_id |-> sim.miner_id,
     success |-> FALSE, steps |-> NoSteps, total_time |-> 0, retries |-> 0,
     error |-> NoError, is_duplicate |-> fid # NoId, is_malformed |-> mal,
     notes |-> FALSE]

(* _delayed_session past its sleep (if any) and lines 21-33, up to the     *)
(* wait for the semaphore.                                                 *)
SessionEnter(i) ==
    /\ pc[i] = "start"
    /\ waited' = [waited EXCEPT ![i] = delay[i]]
    /\ simulator' = [simulator EXCEPT ![i] = OverrideId(@, force_ids[i])]
    /\ stats' = [stats EXCEPT ![i] =
                    NewStats(simulator'[i], force_ids[i], malformed_flags[i])]
    /\ clock' = [clock EXCEPT ![i] = 0]
    /\ pc' = [pc EXCEPT ![i] = "gate"]
    /\ UNCHANGED <<runVars, semaphore, step, attempt, backoff, payload, reply,
                   res, sent, slept, order, throttle>>

(* The first request of a step: _perform_step_with_retry up to its await. *)
StartStep(i, name, body) ==
    /\ step' = [step EXCEPT ![i] = name]
    /\ attempt' = [attempt EXCEPT ![i] = 0]
    /\ backoff' = [backoff EXCEPT ![i] = base_backoff]
    /\ payload' = [payload EXCEPT ![i] = body]
    /\ sent' = [sent EXCEPT ![i][name] = @ + 1]
    /\ pc' = [pc EXCEPT ![i] = "req"]

(* async with self.semaphore, then the challenge request.  Which of the   *)
(* waiting sessions gets a freed permit is left open.                      *)
SessionAcquire(i) ==
    /\ pc[i] = "gate"
    /\ SemAcquirable(semaphore)
    /\ semaphore' = SemAcquire(semaphore)
    /\ \E w \in timing.gate : clock' = [clock EXCEPT ![i] = @ + w]
    /\ StartStep(i, "challenge", EmptyDict)
    /\ UNCHANGED <<runVars, simulator, waited, reply, res, stats, slept, order,
                   throttle>>

----------------------------------------------------------------------------
(* _perform_step_with_retry: what one response does *)

(* Faulty variant: a 403 rejection is taken for overload and retried. *)
StatusClass_Retry403(status) ==
    CASE status \in {200, 400} -> "return"
      [] status \in {403, 429} -> "retry"
      [] OTHER -> "fail"

(* Faulty variant: an unrecognized status is taken for overload and retried. *)
StatusClass_RetryOther(status) ==
    CASE status \in {200, 400, 403} -> "return"
      [] OTHER -> "retry"

StatusClass(status) ==
    CASE status = 200 -> "return"
      [] status \in {400, 403} -> "return"
      [] status = 429 -> "retry"
      [] OTHER -> "fail"

(* Faulty variant: the backoff grows by the base delay instead of doubling. *)
NextBackoff_Linear(b) == b + base_backoff

NextBackoff(b) == b * 2

(* Faulty variant: the ceiling lets one more request through. *)
MayRetry_OneMore(i) == i < max_retries

MayRetry(i) == i + 1 < max_retries

(* resp.json() *)
ParseJson(body) == IF body.json = "invalid" THEN None ELSE body

(* Lines 79-103 for one response r: whether the step returns or sleeps,    *)
(* the value it returns, the error it records and whether line 86 ran.     *)
StepResult(r) ==
    IF r.fault
      THEN [act |-> "return", value |-> None, err |-> ErrTransport, timed |-> FALSE]
    ELSE IF StatusClass(r.status) = "return"
      THEN [act |-> "return", value |-> ParseJson(r.body),
            err |-> IF r.body.json = "invalid" THEN ErrJson ELSE NoError,
            timed |-> TRUE]
    ELSE IF StatusClass(r.status) = "retry"
      THEN [act |-> "sleep", value |-> None, err |-> NoError, timed |-> TRUE]
    ELSE [act |-> "return", value |-> None, err |-> ErrHttp, timed |-> TRUE]

----------------------------------------------------------------------------
(* run_miner_session: what follows the return of a step *)

(* Line 39: the challenge step gave something to go on with. *)
ChallengePassed(v) == Truthy(v)

(* Faulty variant: a challenge answer without a nonce is good enough to     *)
(* build a payload from.                                                   *)
PayloadError_NonceOptional(v) == IF v.json # "dict" THEN ErrAttribute ELSE NoError

(* Lines 40 and 43: nonce_data.get("nonce") and the payload built from it. *)
PayloadError(v) ==
    IF v.json # "dict" THEN ErrAttribute
    ELSE IF "nonce" \notin v.keys THEN ErrType
    ELSE NoError

(* Faulty variant: any answer to a malformed payload counts as a rejection. *)
MalformedRejected_AnyAnswer(v) == Truthy(v)

(* Line 48: the malformed payload was rejected. *)
MalformedRejected(v) == Truthy(v) /\ ~GetOk(v)

(* Faulty variant: any response to the submit step lets the session enroll. *)
SubmitAccepted_AnyResponse(v) == Truthy(v)

(* Line 53, negated: the submit step was accepted. *)
SubmitAccepted(v) == Truthy(v) /\ GetOk(v)

(* Line 60. *)
EnrollAccepted(v) == Truthy(v) /\ GetOk(v)

SendNext(name, body) ==
    [act |-> "send", name |-> name, body |-> body, ok |-> FALSE,
     err |-> NoError, note |-> FALSE]

Return(ok, err, note) ==
    [act |-> "exit", name |-> "none", body |-> "none", ok |-> ok,
     err |-> err, note |-> note]

(* v.get(...) on a value that is no dict raises AttributeError (line 65). *)
NotADict(v) == Truthy(v) /\ v.json # "dict"

AfterChallenge(v, mal, c) ==
    IF ~ChallengePassed(v) THEN Return(FALSE, NoError, FALSE)
    ELSE IF PayloadError(v) # NoError THEN Return(FALSE, PayloadError(v), FALSE)
    ELSE SendNext("submit", IF mal THEN c ELSE "valid")

(* Faulty variant: line 54 runs before the malformed branch, so the wanted  *)
(* rejection is recorded as an error as well.                              *)
AfterSubmit_RejectionAsError(v, mal) ==
    IF NotADict(v) THEN Return(FALSE, ErrAttribute, FALSE)
    ELSE IF mal
      THEN IF MalformedRejected(v) THEN Return(TRUE, ErrSubmit, TRUE)
           ELSE Return(FALSE, NoError, FALSE)
    ELSE IF ~SubmitAccepted(v)
      THEN Return(FALSE, IF Truthy(v) THEN ErrSubmit ELSE NoError, FALSE)
    ELSE SendNext("enroll", "enroll")

AfterSubmit(v, mal) ==
    IF NotADict(v) THEN Return(FALSE, ErrAttribute, FALSE)
    ELSE IF mal
      THEN IF MalformedRejected(v) THEN Return(TRUE, NoError, TRUE)
           ELSE Return(FALSE, NoError, FALSE)
    ELSE IF ~SubmitAccepted(v)
      THEN Return(FALSE, IF Truthy(v) THEN ErrSubmit ELSE NoError, FALSE)
    ELSE SendNext("enroll", "enroll")

(* Faulty variant: a refused enrollment leaves no error behind. *)
AfterEnroll_SilentRefusal(v) ==
    IF NotADict(v) THEN Return(FALSE, ErrAttribute, FALSE)
    ELSE IF EnrollAccepted(v) THEN Return(TRUE, NoError, FALSE)
    ELSE Return(FALSE, NoError, FALSE)

AfterEnroll(v) ==
    IF NotADict(v) THEN Return(FALSE, ErrAttribute, FALSE)
    ELSE IF EnrollAccepted(v) THEN Return(TRUE, NoError, FALSE)
    ELSE Return(FALSE, IF Truthy(v) THEN ErrEnroll ELSE NoError, FALSE)

(* Lines 38-63 after the step `name` returned v. *)
AfterStep(name, v, mal, c) ==
    CASE name = "challenge" -> AfterChallenge(v, mal, c)
      [] name = "submit" -> AfterSubmit(v, mal)
      [] OTHER -> AfterEnroll(v)

SetError(st, err) == IF err # NoError THEN [st EXCEPT !.error = err] ELSE st

(* Lines 43 and 58: the payload of the next request. *)
PayloadOf(sim, kind) ==
    CASE kind = "valid" -> BuildAttestationPayload(sim, ChallengeNonce)
      [] kind = "enroll" -> BuildEnrollPayload(sim)
      [] OTHER -> BuildMalformedPayload(sim, ChallengeNonce, kind)

(* The session goes on from the return of a step, with st the stats the    *)
(* step left: it sends the next request, or leaves through the finally     *)
(* clause and the release of the semaphore (lines 67-70).                  *)
Proceed(i, st, v, c) ==
    LET d == AfterStep(step[i], v, malformed_flags[i], c) IN
    /\ res' = [res EXCEPT ![i] = v]
    /\ IF d.act = "send"
         THEN /\ StartStep(i, d.name, PayloadOf(simulator[i], d.body))
              /\ stats' = [stats EXCEPT ![i] = st]
              /\ UNCHANGED <<semaphore, order>>
         ELSE /\ stats' = [stats EXCEPT ![i] =
                             [SetError(st, d.err) EXCEPT !.success = d.ok,
                                                         !.notes = d.note,
                                                         !.total_time = clock'[i]]]
              /\ semaphore' = SemRelease(semaphore)
              /\ pc' = [pc EXCEPT ![i] = "done"]
              /\ order' = Append(order, i)
              /\ UNCHANGED <<step, attempt, backoff, payload, sent>>

(* How long the awaits of a session take, in seconds: the wait for the     *)
(* semaphore, a request until its response or fault, and what a sleep      *)
(* takes beyond the seconds asked for.  In a run whose timing is not       *)
(* looked at every request takes a second and nothing else takes time.     *)
Timing(gate, request, lag) == [gate |-> gate, request |-> request, lag |-> lag]

UnitTiming == Timing({0}, {1}, {0})

(* A target that may give any of the answers in replies, whatever it is   *)
(* sent, and one that looks at what it is sent: it answers 400 to a submit *)
(* request whose body is no JSON object, has no nonce or has a commitment  *)
(* that does not recompute, and 200 with ok true to everything else.       *)
Target(replies) == [validates |-> FALSE, replies |-> replies]

ValidatingTarget ==
    [validates |-> TRUE,
     replies |-> {Response(FALSE, 200, BodyFull), Response(FALSE, 200, BodyOk),
                  Response(FALSE, 400, BodyRejected)}]

Validated(name, p) ==
    IF name = "challenge" THEN Response(FALSE, 200, BodyFull)
    ELSE IF name = "submit" /\ (Violations(p) \cap {"encoding", "nonce", "commitment"}) # {}
      THEN Response(FALSE, 400, BodyRejected)
    ELSE Response(FALSE, 200, BodyOk)

Answers(t, name, p) == IF t.validates THEN {Validated(name, p)} ELSE t.replies

(* Line 86: the seconds of one request are added to the entry of its step. *)
Record(steps, name, d) ==
    [s \in DOMAIN steps \cup {name} |->
        (IF s \in DOMAIN steps THEN steps[s] ELSE 0) + (IF s = name THEN d ELSE 0)]

(* A response or a transport fault reaches the session, d seconds after    *)
(* the request was sent.                                                   *)
SessionRespond(i, r, c) ==
    /\ pc[i] = "req"
    /\ r \in Answers(target, step[i], payload[i])
    /\ r.status = 429 => throttle > 0
    /\ reply' = [reply EXCEPT ![i] = r]
    /\ throttle' = IF ~r.fault /\ r.status = 429 THEN throttle - 1 ELSE throttle
    /\ \E d \in timing.request :
          /\ clock' = [clock EXCEPT ![i] = @ + d]
          /\ LET out == StepResult(r)
                 st == [stats[i] EXCEPT
                          !.steps = IF out.timed THEN Record(@, step[i], d) ELSE @]
             IN IF out.act = "sleep"
                  THEN /\ stats' = [stats EXCEPT ![i] = [st EXCEPT !.retries = @ + 1]]
                       /\ slept' = [slept EXCEPT ![i] =
                                      Append(@, [step |-> step[i], secs |-> backoff[i]])]
                       /\ pc' = [pc EXCEPT ![i] = "backoff"]
                       /\ UNCHANGED <<semaphore, step, attempt, backoff, payload,
                                      res, sent, order>>
                  ELSE /\ Proceed(i, SetError(st, out.err), out.value, c)
                       /\ UNCHANGED slept
    /\ UNCHANGED <<runVars, simulator, waited>>

(* Faulty variant: the sleep returns at once. *)
SleepTakes_NoTime(secs, lag) == lag

(* asyncio.sleep(secs) returns after secs seconds or later. *)
SleepTakes(secs, lag) == secs + lag

(* The end of asyncio.sleep(backoff): lines 97, 77 and, past the loop,     *)
(* 105-106, where the doubled backoff is dead and is left as it was.       *)
SessionBackoffDone(i, c) ==
    /\ pc[i] = "backoff"
    /\ \E lag \in timing.lag :
          clock' = [clock EXCEPT ![i] = @ + SleepTakes(backoff[i], lag)]
    /\ IF MayRetry(attempt[i])
         THEN /\ backoff' = [backoff EXCEPT ![i] = NextBackoff(@)]
              /\ attempt' = [attempt EXCEPT ![i] = @ + 1]
              /\ sent' = [sent EXCEPT ![i][step[i]] = @ + 1]
              /\ pc' = [pc EXCEPT ![i] = "req"]
              /\ UNCHANGED <<semaphore, step, payload, res, stats, order>>
         ELSE Proceed(i, SetError(stats[i], ErrMaxRetries), None, c)
    /\ UNCHANGED <<runVars, simulator, waited, reply, slept, throttle>>

----------------------------------------------------------------------------
(* run_test: asyncio.gather and print_summary *)

(* Faulty variant: the outcomes of failed sessions are dropped. *)
Gather_OnlySuccesses(outcome, completed) ==
    SelectSeq([k \in 1..Len(completed) |-> outcome[k]], LAMBDA r : r.success)

(* Faulty variant: the outcomes are collected as the sessions complete. *)
Gather_ByCompletion(outcome, completed) ==
    [k \in 1..Len(completed) |-> outcome[completed[k]]]

(* asyncio.gather: the results in the order of the awaitables. *)
Gather(outcome, completed) == [k \in 1..Len(completed) |-> outcome[k]]

(* len(successes) and len(failures) of lines 158-159. *)
Successes(rs) == Cardinality({k \in 1..Len(rs) : rs[k].success})

Failures(rs) == Cardinality({k \in 1..Len(rs) : ~rs[k].success})

(* Line 161. *)
TotalTimes(rs) ==
    LET timed == SelectSeq(rs, LAMBDA r : "total_time" \in DOMAIN r)
    IN [k \in 1..Len(timed) |-> timed[k].total_time]

(* total_times.sort() *)
Sorted(ts) == SortSeq(ts, LAMBDA a, b : a < b)

(* statistics.median, doubled to stay in the integers. *)
Median2(ts) ==
    LET srt == Sorted(ts)
        n == Len(ts)
    IN IF n % 2 = 1 THEN 2 * srt[(n + 1) \div 2]
       ELSE srt[n \div 2] + srt[(n \div 2) + 1]

(* Faulty variant: the rank is taken among the count - 1 gaps. *)
Percentile_OfGaps(srt, n) == srt[(((Len(srt) - 1) * n) \div 100) + 1]

(* Lines 176-177: total_times[int(len(total_times) * 0.95)], 0-based; the  *)
(* float product truncates to floor(count * N / 100) for every count up to *)
(* 2000.                                                                   *)
Percentile(srt, n) == srt[((Len(srt) * n) \div 100) + 1]

(* Lines 172-177: the lines of the latency section and their values. *)
Latency(ts) ==
    [lines |-> {x \in {"P50"} : Len(ts) > 0} \cup {x \in {"P95", "P99"} : Len(ts) > 1},
     p50x2 |-> IF Len(ts) > 0 THEN Median2(ts) ELSE 0,
     p95 |-> IF Len(ts) > 1 THEN Percentile(Sorted(ts), 95) ELSE 0,
     p99 |-> IF Len(ts) > 1 THEN Percentile(Sorted(ts), 99) ELSE 0]

(* Faulty variant: a session without an entry for the step counts as 0 s. *)
StepTimes_ZeroForMissing(rs, name) ==
    [k \in 1..Len(rs) |-> IF name \in DOMAIN rs[k].steps THEN rs[k].steps[name] ELSE 0]

(* Line 181: the entries the outcomes have for one step. *)
StepTimes(rs, name) ==
    LET having == SelectSeq(rs, LAMBDA r : name \in DOMAIN r.steps)
    IN [k \in 1..Len(having) |-> having[k].steps[name]]

(* Lines 182-183: the line of one step, its mean kept as sum and count. *)
StepAverage(ts) == [printed |-> Len(ts) > 0, sum |-> Sum(ts), n |-> Len(ts)]

(* Faulty variant: every session is counted in the error table. *)
FailureSeq_Everyone(rs) == rs

(* failures of line 159, in the order of self.results. *)
FailureSeq(rs) == SelectSeq(rs, LAMBDA r : ~r.success)

UnknownError == "Unknown error"

(* r.get("error", "Unknown error") *)
GetError(r) == IF r.error = NoError THEN UnknownError ELSE r.error

(* Lines 188-190: error_counts as its items, in the order the keys were    *)
(* first inserted.                                                         *)
RECURSIVE ErrorCounts(_, _)
ErrorCounts(fs, items) ==
    IF fs = <<>> THEN items
    ELSE LET err == GetError(Head(fs))
             at == {k \in DOMAIN items : items[k].err = err}
         IN ErrorCounts(Tail(fs),
                IF at = {} THEN Append(items, [err |-> err, count |-> 1])
                ELSE [k \in DOMAIN items |->
                        IF k \in at THEN [items[k] EXCEPT !.count = @ + 1]
                        ELSE items[k]])

(* Line 192: sorted(..., key=count, reverse=True); the sort is stable, so  *)
(* items of equal count stay in the order they had.                        *)
RECURSIVE SortedErrors(_, _)
SortedErrors(items, done) ==
    IF items = <<>> THEN done
    ELSE LET x == Head(items)
             ahead == Cardinality({k \in DOMAIN done : done[k].count >= x.count})
         IN SortedErrors(Tail(items),
                SubSeq(done, 1, ahead) \o <<x>> \o SubSeq(done, ahead + 1, Len(done)))

(* Lines 185-194: the rows under "Top Errors". *)
TopErrors(rs) ==
    LET ranked == SortedErrors(ErrorCounts(FailureSeq(rs), <<>>), <<>>)
    IN SubSeq(ranked, 1, IF Len(ranked) < top_errors THEN Len(ranked) ELSE top_errors)

NoSummary == [printed |-> FALSE, total |-> 0, records |-> 0, successes |-> 0,
              failures |-> 0, rate_pct |-> 0, latency |-> Latency(<<>>),
              step_avg |-> [s \in StepNames |-> StepAverage(<<>>)],
              errors |-> <<>>]

(* Lines 158-194; total_miners = 0 divides by zero on line 167. *)
PrintSummary(rs, total_miners) ==
    [printed |-> TRUE, total |-> total_miners, records |-> Len(rs),
     successes |-> Successes(rs), failures |-> Failures(rs),
     rate_pct |-> (Successes(rs) * 100) \div total_miners,
     latency |-> Latency(TotalTimes(rs)),
     step_avg |-> [s \in StepNames |-> StepAverage(StepTimes(rs, s))],
     errors |-> TopErrors(rs)]

(* print_summary called on the outcomes in self.results. *)
PrintSummaryCall ==
    /\ phase = "summary"
    /\ IF args.num_miners = 0
         THEN phase' = "ZeroDivisionError" /\ UNCHANGED summary
         ELSE /\ summary' = PrintSummary(results, args.num_miners)
              /\ phase' = "done"
    /\ UNCHANGED <<args, semaphore, force_ids, malformed_flags, delay,
                   simulator, waited, pc, step, attempt, backoff, payload,
                   reply, res, stats, sent, slept, order, results, target,
                   throttle, clock, timing>>

RunTestGather ==
    /\ phase = "gather"
    /\ \A i \in Sessions : pc[i] = "done"
    /\ results' = Gather(stats, order)
    /\ IF args.num_miners = 0
         THEN phase' = "ZeroDivisionError" /\ UNCHANGED summary
         ELSE /\ summary' = PrintSummary(results', args.num_miners)
              /\ phase' = "done"
    /\ UNCHANGED <<args, semaphore, force_ids, malformed_flags, delay,
                   simulator, waited, pc, step, attempt, backoff, payload,
                   reply, res, stats, sent, slept, order, target, throttle,
                   clock, timing>>

----------------------------------------------------------------------------
(* run_stress_test.py: main and the operator's interrupt *)

(* Faulty variant: the sessions are left running when the run is cancelled. *)
Cancel_Ignored(p) == p

(* The cancellation of gather reaches every session that has not ended: it *)
(* raises CancelledError at the await the session is suspended in, which   *)
(* the except Exception clauses of lines 65 and 101 do not catch.          *)
Cancel(p) == IF p = "done" THEN "done" ELSE "cancelled"

(* KeyboardInterrupt while asyncio.run(main()) runs: the sessions are      *)
(* cancelled, those inside the gate leave it, run_test is left at its      *)
(* await without print_summary, main without the report, and lines 55-56   *)
(* print the notice.                                                       *)
OperatorAbort ==
    /\ phase \in {"plan", "gather", "done"}
    /\ phase' = "aborted"
    /\ pc' = [i \in DOMAIN pc |-> Cancel(pc[i])]
    /\ semaphore' = semaphore +
          Cardinality({i \in DOMAIN pc : pc[i] \in {"req", "backoff"} /\ pc'[i] = "cancelled"})
    /\ stats' = [i \in DOMAIN pc |->
                    IF pc[i] \in {"req", "backoff"}
                      THEN [stats[i] EXCEPT !.total_time = clock[i]]
                      ELSE stats[i]]
    /\ UNCHANGED <<args, force_ids, malformed_flags, delay, simulator, waited,
                   step, attempt, backoff, payload, reply, res, sent, slept,
                   order, results, summary, target, throttle, clock, timing>>

(* Lines 44-50: run_test has returned and main writes the report. *)
MainSaveReport ==
    /\ phase = "done"
    /\ phase' = "reported"
    /\ UNCHANGED <<args, semaphore, force_ids, malformed_flags, delay,
                   simulator, waited, pc, step, attempt, backoff, payload,
                   reply, res, stats, sent, slept, order, results, summary,
                   target, throttle, clock, timing>>

----------------------------------------------------------------------------
(* Specifications *)

DupPcts == {0, 50}

Args == [num_miners : 0..MaxMiners, concurrency : 1..MaxConcurrency,
         duplicate_pct : DupPcts, test_malformed : BOOLEAN,
         test_epoch_boundary : BOOLEAN]

Ok200 == Response(FALSE, 200, BodyFull)
Busy429 == Response(FALSE, 429, BodyRejected)

(* Target stubs of the run: one that may fail every request in each way a  *)
(* step can end, one that answers 429 now and then, one that answers       *)
(* nothing but 429.                                                        *)
StubFlaky ==
    [replies |-> {Ok200, Response(FALSE, 200, BodyOk),
                  Response(FALSE, 400, BodyRejected),
                  Response(FALSE, 500, BodyInvalid), Fault},
     throttle |-> 0]

StubBusy == [replies |-> {Ok200, Busy429}, throttle |-> MaxThrottle]

StubDown == [replies |-> {Busy429}, throttle |-> MaxMiners * Len(Steps) * max_retries]

Stubs == {StubFlaky, StubBusy, StubDown}

(* A run of run_test. *)
Init ==
    /\ args \in Args
    /\ phase = "plan"
    /\ semaphore = SemaphoreInit(args.concurrency)
    /\ force_ids = <<>>
    /\ malformed_flags = <<>>
    /\ delay = <<>>
    /\ simulator = <<>>
    /\ waited = <<>>
    /\ clock = <<>>
    /\ pc = <<>>
    /\ step = <<>>
    /\ attempt = <<>>
    /\ backoff = <<>>
    /\ payload = <<>>
    /\ reply = <<>>
    /\ res = <<>>
    /\ stats = <<>>
    /\ sent = <<>>
    /\ slept = <<>>
    /\ order = <<>>
    /\ results = <<>>
    /\ summary = NoSummary
    /\ \E stub \in Stubs : target = Target(stub.replies) /\ throttle = stub.throttle
    /\ timing = UnitTiming

Next ==
    \/ RunTestPlan
    \/ \E i \in DOMAIN pc : SessionEnter(i)
    \/ \E i \in DOMAIN pc : SessionAcquire(i)
    \/ \E i \in DOMAIN pc : \E r \in Replies, c \in Corruptions : SessionRespond(i, r, c)
    \/ \E i \in DOMAIN pc : \E c \in Corruptions : SessionBackoffDone(i, c)
    \/ RunTestGather

Spec == Init /\ [][Next]_vars

(* The same run under the scheduling of the event loop: a coroutine that   *)
(* can run is run, a request gets its response or its fault within the     *)
(* client's timeout, a sleep ends, and a permit that stays free is given   *)
(* to a session that waits for it.                                         *)
Fairness ==
    /\ WF_vars(RunTestPlan)
    /\ \A i \in 1..MaxMiners :
          /\ WF_vars(i \in DOMAIN pc /\ SessionEnter(i))
          /\ WF_vars(i \in DOMAIN pc /\ SessionAcquire(i))
          /\ WF_vars(i \in DOMAIN pc /\
                       \E r \in Replies, c \in Corruptions : SessionRespond(i, r, c))
          /\ WF_vars(i \in DOMAIN pc /\
                       \E c \in Corruptions : SessionBackoffDone(i, c))
    /\ WF_vars(RunTestGather)

SpecFair == Spec /\ Fairness

(* main of run_stress_test.py: a run against the target that answers 429  *)
(* now and then, which the operator may interrupt.                         *)
MainArgs == [num_miners : 0..(MaxMiners + 1), concurrency : {1, MaxConcurrency},
             duplicate_pct : {0}, test_malformed : {FALSE},
             test_epoch_boundary : BOOLEAN]

InitMain ==
    /\ args \in MainArgs
    /\ phase = "plan"
    /\ semaphore = SemaphoreInit(args.concurrency)
    /\ force_ids = <<>>
    /\ malformed_flags = <<>>
    /\ delay = <<>>
    /\ simulator = <<>>
    /\ waited = <<>>
    /\ clock = <<>>
    /\ pc = <<>>
    /\ step = <<>>
    /\ attempt = <<>>
    /\ backoff = <<>>
    /\ payload = <<>>
    /\ reply = <<>>
    /\ res = <<>>
    /\ stats = <<>>
    /\ sent = <<>>
    /\ slept = <<>>
    /\ order = <<>>
    /\ results = <<>>
    /\ summary = NoSummary
    /\ target = Target(StubBusy.replies)
    /\ timing = UnitTiming
    /\ throttle = StubBusy.throttle

NextMain ==
    \/ Next
    \/ OperatorAbort
    \/ MainSaveReport

SpecMain == InitMain /\ [][NextMain]_vars

(* One call of _delayed_session on a harness of its own, against a target  *)
(* that may give any answer, 429 as often as the retry ceiling allows.     *)
InitSession ==
    /\ args = [num_miners |-> 1, concurrency |-> 1, duplicate_pct |-> 0,
               test_malformed |-> FALSE, test_epoch_boundary |-> FALSE]
    /\ phase = "session"
    /\ semaphore = SemaphoreInit(args.concurrency)
    /\ force_ids \in {<<NoId>>, <<base_id>>}
    /\ malformed_flags \in {<<FALSE>>, <<TRUE>>}
    /\ delay \in {<<0>>, <<epoch_delay>>}
    /\ simulator \in {<<MinerSimulator(1, ArchKeys[a], FixedDraws)>> : a \in DOMAIN ArchKeys}
    /\ waited = <<0>>
    /\ clock = <<0>>
    /\ pc = <<"start">>
    /\ step = <<"none">>
    /\ attempt = <<0>>
    /\ backoff = <<0>>
    /\ payload = <<NoPayload>>
    /\ reply = <<NoReply>>
    /\ res = <<None>>
    /\ stats = <<NoStats>>
    /\ sent = <<NoSent>>
    /\ slept = << <<>> >>
    /\ order = <<>>
    /\ results = <<>>
    /\ summary = NoSummary
    /\ target = Target(Replies)
    /\ timing = UnitTiming
    /\ throttle = Len(Steps) * max_retries

NextSession ==
    \/ \E i \in DOMAIN pc : SessionEnter(i)
    \/ \E i \in DOMAIN pc : SessionAcquire(i)
    \/ \E i \in DOMAIN pc : \E r \in Replies, c \in Corruptions : SessionRespond(i, r, c)
    \/ \E i \in DOMAIN pc : \E c \in Corruptions : SessionBackoffDone(i, c)

SpecSession == InitSession /\ [][NextSession]_vars

(* One call of run_miner_session whose awaits take time: up to MaxLag      *)
(* seconds at the semaphore, 1 to MaxLatency seconds for a request, up to  *)
(* MaxLag seconds more than asked for a sleep; the target fails a request  *)
(* in each way a step can end and answers 429 now and then.                *)
InitTimed ==
    /\ args = [num_miners |-> 1, concurrency |-> 1, duplicate_pct |-> 0,
               test_malformed |-> FALSE, test_epoch_boundary |-> FALSE]
    /\ phase = "session"
    /\ semaphore = SemaphoreInit(args.concurrency)
    /\ force_ids = <<NoId>>
    /\ malformed_flags \in {<<FALSE>>, <<TRUE>>}
    /\ delay = <<0>>
    /\ simulator = Simulators(1)
    /\ waited = <<0>>
    /\ clock = <<0>>
    /\ pc = <<"start">>
    /\ step = <<"none">>
    /\ attempt = <<0>>
    /\ backoff = <<0>>
    /\ payload = <<NoPayload>>
    /\ reply = <<NoReply>>
    /\ res = <<None>>
    /\ stats = <<NoStats>>
    /\ sent = <<NoSent>>
    /\ slept = << <<>> >>
    /\ order = <<>>
    /\ results = <<>>
    /\ summary = NoSummary
    /\ target = Target(StubFlaky.replies \cup {Busy429})
    /\ throttle = MaxThrottle + 1
    /\ timing = Timing(0..MaxLag, 1..MaxLatency, 0..MaxLag)

SpecTimed == InitTimed /\ [][NextSession]_vars

(* The payload builders of one simulator called on their own, as           *)
(* run_miner_session calls them: for every archetype, with or without an   *)
(* overridden miner_id, for the outcomes of the random draws and for the   *)
(* nonces handed in.                                                       *)
Nonces == {"nonce-1", "nonce-2"}

InitPayload ==
    /\ args = [num_miners |-> 1, concurrency |-> 1, duplicate_pct |-> 0,
               test_malformed |-> FALSE, test_epoch_boundary |-> FALSE]
    /\ phase = "payload"
    /\ semaphore = SemaphoreInit(args.concurrency)
    /\ force_ids \in {<<NoId>>, <<base_id>>}
    /\ malformed_flags = <<FALSE>>
    /\ delay = <<0>>
    /\ \E a \in DOMAIN ArchKeys, d \in RandomDraws :
          simulator = <<OverrideId(MinerSimulator(1, ArchKeys[a], d), force_ids[1])>>
    /\ waited = <<0>>
    /\ clock = <<0>>
    /\ pc = <<"build">>
    /\ step = <<"none">>
    /\ attempt = <<0>>
    /\ backoff = <<0>>
    /\ payload = <<NoPayload>>
    /\ reply = <<NoReply>>
    /\ res = <<None>>
    /\ stats = <<NoStats>>
    /\ sent = <<NoSent>>
    /\ slept = << <<>> >>
    /\ order = <<>>
    /\ results = <<>>
    /\ summary = NoSummary
    /\ target = Target({})
    /\ timing = UnitTiming
    /\ throttle = 0

(* One call of a builder; step names the builder that made the payload. *)
Build(i, builder, p) ==
    /\ pc[i] = "build"
    /\ step' = [step EXCEPT ![i] = builder]
    /\ payload' = [payload EXCEPT ![i] = p]
    /\ UNCHANGED <<runVars, semaphore, simulator, waited, pc, attempt, backoff,
                   reply, res, stats, sent, slept, order, throttle, clock>>

CallBuildAttestationPayload(i, nonce) ==
    Build(i, "build_attestation_payload", BuildAttestationPayload(simulator[i], nonce))

CallBuildMalformedPayload(i, nonce, choice) ==
    Build(i, "build_malformed_payload", BuildMalformedPayload(simulator[i], nonce, choice))

CallBuildEnrollPayload(i) ==
    Build(i, "build_enroll_payload", BuildEnrollPayload(simulator[i]))

NextPayload ==
    \/ \E i \in DOMAIN pc : \E n \in Nonces : CallBuildAttestationPayload(i, n)
    \/ \E i \in DOMAIN pc : \E n \in Nonces, c \in Corruptions :
          CallBuildMalformedPayload(i, n, c)
    \/ \E i \in DOMAIN pc : CallBuildEnrollPayload(i)

SpecPayload == InitPayload /\ [][NextPayload]_vars

(* print_summary on its own, for every list of up to MaxResults outcomes   *)
(* with total times of 1 to MaxTotalTime seconds.                          *)
Outcome(ok, t, steps, err) ==
    [success |-> ok, total_time |-> t, steps |-> steps, error |-> err]

Outcomes ==
    {Outcome(TRUE, t, NoSteps, NoError) : t \in 1..MaxTotalTime}
        \cup {Outcome(FALSE, 1, NoSteps, NoError)}

RECURSIVE SeqsUpTo(_, _)
SeqsUpTo(S, n) ==
    IF n = 0 THEN {<<>>}
    ELSE LET shorter == SeqsUpTo(S, n - 1)
         IN shorter \cup {Append(q, x) : q \in {r \in shorter : Len(r) = n - 1}, x \in S}

InitSummary ==
    /\ results \in SeqsUpTo(Outcomes, MaxResults)
    /\ args = [num_miners |-> Len(results), concurrency |-> 1, duplicate_pct |-> 0,
               test_malformed |-> FALSE, test_epoch_boundary |-> FALSE]
    /\ phase = "summary"
    /\ semaphore = SemaphoreInit(args.concurrency)
    /\ force_ids = <<>>
    /\ malformed_flags = <<>>
    /\ delay = <<>>
    /\ simulator = <<>>
    /\ waited = <<>>
    /\ clock = <<>>
    /\ pc = <<>>
    /\ step = <<>>
    /\ attempt = <<>>
    /\ backoff = <<>>
    /\ payload = <<>>
    /\ reply = <<>>
    /\ res = <<>>
    /\ stats = <<>>
    /\ sent = <<>>
    /\ slept = <<>>
    /\ order = <<>>
    /\ summary = NoSummary
    /\ target = Target({})
    /\ timing = UnitTiming
    /\ throttle = 0

NextSummary == PrintSummaryCall

SpecSummary == InitSummary /\ [][NextSummary]_vars

(* print_summary on its own, for outcome lists that hold each error up to  *)
(* MaxPerError times and no error string at all likewise, the errors       *)
(* taking turns from any of them on, after up to one success.              *)
ErrorNames == <<ErrMaxRetries, ErrHttp, ErrTransport, ErrSubmit, ErrEnroll, NoError>>

RECURSIVE ErrorRounds(_, _, _)
ErrorRounds(counts, names, round) ==
    IF round > MaxPerError THEN <<>>
    ELSE SelectSeq(names, LAMBDA e : counts[e] >= round)
            \o ErrorRounds(counts, names, round + 1)

ErrorMix(counts, turn, wins) ==
    LET n == Len(ErrorNames)
        names == [k \in 1..n |-> ErrorNames[((k - 1 + turn) % n) + 1]]
        errs == ErrorRounds(counts, names, 1)
    IN [k \in 1..wins |-> Outcome(TRUE, 1, NoSteps, NoError)]
          \o [k \in 1..Len(errs) |-> Outcome(FALSE, 1, NoSteps, errs[k])]

InitErrorTable ==
    /\ \E counts \in [{ErrorNames[k] : k \in DOMAIN ErrorNames} -> 0..MaxPerError],
          turn \in 0..(Len(ErrorNames) - 1), wins \in 0..1 :
          results = ErrorMix(counts, turn, wins)
    /\ args = [num_miners |-> Len(results), concurrency |-> 1, duplicate_pct |-> 0,
               test_malformed |-> FALSE, test_epoch_boundary |-> FALSE]
    /\ phase = "summary"
    /\ semaphore = SemaphoreInit(args.concurrency)
    /\ force_ids = <<>>
    /\ malformed_flags = <<>>
    /\ delay = <<>>
    /\ simulator = <<>>
    /\ waited = <<>>
    /\ clock = <<>>
    /\ pc = <<>>
    /\ step = <<>>
    /\ attempt = <<>>
    /\ backoff = <<>>
    /\ payload = <<>>
    /\ reply = <<>>
    /\ res = <<>>
    /\ stats = <<>>
    /\ sent = <<>>
    /\ slept = <<>>
    /\ order = <<>>
    /\ summary = NoSummary
    /\ target = Target({})
    /\ timing = UnitTiming
    /\ throttle = 0

SpecErrorTable == InitErrorTable /\ [][NextSummary]_vars

(* Whole runs of up to MaxPlanMiners sessions against the validating       *)
(* target, the sessions taken one after the other in launch order: one of  *)
(* the schedules of a run, and the one a gate of one permit gives.         *)
PlanArgs == [num_miners : 0..MaxPlanMiners, concurrency : {1, 5},
             duplicate_pct : {0, 20}, test_malformed : BOOLEAN,
             test_epoch_boundary : BOOLEAN]

InitE2E ==
    /\ args \in PlanArgs
    /\ phase = "plan"
    /\ semaphore = SemaphoreInit(args.concurrency)
    /\ force_ids = <<>>
    /\ malformed_flags = <<>>
    /\ delay = <<>>
    /\ simulator = <<>>
    /\ waited = <<>>
    /\ clock = <<>>
    /\ pc = <<>>
    /\ step = <<>>
    /\ attempt = <<>>
    /\ backoff = <<>>
    /\ payload = <<>>
    /\ reply = <<>>
    /\ res = <<>>
    /\ stats = <<>>
    /\ sent = <<>>
    /\ slept = <<>>
    /\ order = <<>>
    /\ results = <<>>
    /\ summary = NoSummary
    /\ target = ValidatingTarget
    /\ timing = UnitTiming
    /\ throttle = 0

InTurn(i) == \A j \in 1..(i - 1) : pc[j] = "done"

NextE2E ==
    \/ RunTestPlan
    \/ \E i \in DOMAIN pc : InTurn(i) /\ SessionEnter(i)
    \/ \E i \in DOMAIN pc : InTurn(i) /\ SessionAcquire(i)
    \/ \E i \in DOMAIN pc : \E r \in ValidatingTarget.replies, c \in Corruptions :
          InTurn(i) /\ SessionRespond(i, r, c)
    \/ RunTestGather

SpecE2E == InitE2E /\ [][NextE2E]_vars

----------------------------------------------------------------------------
(* Notions the properties share *)

InFlight == {i \in DOMAIN pc : pc[i] = "req"}

Holders == {i \in DOMAIN pc : pc[i] \in {"req", "backoff"}}

AllDone == \A i \in DOMAIN pc : pc[i] = "done"

Raised == {"NameError", "ZeroDivisionError"}

(* Session i took a response or a fault in this step. *)
Handled(i) == pc[i] = "req" /\ (pc'[i] # "req" \/ sent'[i] # sent[i])

StepWaits(i, s) == SelectSeq(slept[i], LAMBDA w : w.step = s)

----------------------------------------------------------------------------
(* C1: at no instant do more sessions have a request in flight than the    *)
(* gate has capacity, for every capacity C >= 1 and miner count N > C.     *)
C1_ConcurrencyBound == Cardinality(InFlight) <= args.concurrency

C1_Witness ==
    /\ args.num_miners > args.concurrency
    /\ Cardinality(InFlight) = args.concurrency
    /\ \E i \in DOMAIN pc : pc[i] = "gate"

(* C2: free permits + sessions holding a permit = C in every state, and   *)
(* the gate has its C permits back once every session has ended, on every *)
(* exit path of run_miner_session.                                         *)
C2_GateBalanced ==
    /\ semaphore + Cardinality(Holders) = args.concurrency
    /\ semaphore >= 0
    /\ (phase # "plan" /\ AllDone) => semaphore = args.concurrency

C2_Witness ==
    /\ phase = "gather"
    /\ AllDone
    /\ \E i, j \in DOMAIN pc :
          /\ stats[i].error \in {ErrType, ErrTransport, ErrHttp, ErrMaxRetries}
          /\ stats[j].success
    /\ semaphore = args.concurrency

(* C3: in a non-malformed session a submit request is sent only after the *)
(* challenge step returned a response, an enroll request only after the    *)
(* submit step returned a response with ok true, success is set only after *)
(* the enroll step returned a response with ok true, and a transport fault *)
(* or an unrecognized status at any step ends the session with             *)
(* success=false and no further request.                                   *)
Returned(i) ==
    /\ ~reply'[i].fault
    /\ reply'[i].status \in {200, 400, 403}
    /\ res'[i] = reply'[i].body
    /\ Truthy(res'[i])

C3_StepOrderOf(i) ==
    /\ sent[i]["submit"] = 0 /\ sent'[i]["submit"] > 0
          => Handled(i) /\ step[i] = "challenge" /\ Returned(i)
    /\ sent[i]["enroll"] = 0 /\ sent'[i]["enroll"] > 0
          => Handled(i) /\ step[i] = "submit" /\ Returned(i) /\ GetOk(res'[i])
    /\ ~stats[i].success /\ stats'[i].success
          => Handled(i) /\ step[i] = "enroll" /\ Returned(i) /\ GetOk(res'[i])
    /\ Handled(i) /\ (reply'[i].fault \/ reply'[i].status \notin {200, 400, 403, 429})
          => pc'[i] = "done" /\ ~stats'[i].success /\ sent'[i] = sent[i]
    /\ pc[i] = "done"
          => pc'[i] = "done" /\ sent'[i] = sent[i] /\ stats'[i] = stats[i]

C3_StepOrder ==
    [][\A i \in DOMAIN pc : ~malformed_flags[i] => C3_StepOrderOf(i)]_vars

C3_Witness ==
    \E i \in DOMAIN pc :
        /\ ~malformed_flags[i]
        /\ pc[i] = "done"
        /\ stats[i].success
        /\ \A s \in StepNames : sent[i][s] > 0

(* C4: in a malformed-mode session a rejection of the submit step (a       *)
(* returned response whose ok is not true) ends the session with           *)
(* success=true, and no malformed-mode session ever sends an enroll        *)
(* request.                                                                *)
C4_MalformedRejection ==
    \A i \in DOMAIN pc :
        malformed_flags[i] =>
            /\ sent[i]["enroll"] = 0
            /\ ( /\ pc[i] = "done"
                 /\ step[i] = "submit"
                 /\ ~reply[i].fault
                 /\ reply[i].status \in {400, 403}
                 /\ reply[i].body.json = "dict"
                 /\ ~GetOk(reply[i].body) ) => stats[i].success

(* C5: against a target that answers 429 k times and then 200, the step    *)
(* returns the 200 result after exactly k retries for k < 5, the waits     *)
(* being 2, 4, 8, ... seconds, and fails with 'Max retries exceeded (429)' *)
(* after exactly 5 requests for k >= 5.                                    *)
Pow2(k) == IF k = 0 THEN 1 ELSE IF k = 1 THEN 2 ELSE IF k = 2 THEN 4
           ELSE IF k = 3 THEN 8 ELSE IF k = 4 THEN 16 ELSE 32

(* The step the session's last response belongs to. *)
LastStep(i) ==
    IF pc[i] \in {"done", "backoff"} THEN step[i]
    ELSE IF step[i] = "submit" THEN "challenge"
    ELSE IF step[i] = "enroll" THEN "submit"
    ELSE "none"

Given429 == Len(Steps) * max_retries - throttle

C5_RetryPolicyOf(i) ==
    /\ stats[i].retries = Len(slept[i])
    /\ stats[i].retries = Given429
    /\ \A s \in StepNames :
          LET w == StepWaits(i, s) IN
          /\ Len(w) <= max_retries
          /\ \A k \in 1..Len(w) : w[k].secs = base_backoff * Pow2(k - 1)
          /\ Len(w) = max_retries =>
                /\ sent[i][s] = max_retries
                /\ step[i] = s
                /\ \/ pc[i] = "backoff"
                   \/ /\ pc[i] = "done"
                      /\ stats[i].error = ErrMaxRetries
                      /\ ~stats[i].success
    /\ (pc[i] \in {"req", "done"} /\ ~reply[i].fault /\ reply[i].status = 200) =>
          /\ Len(StepWaits(i, LastStep(i))) < max_retries
          /\ sent[i][LastStep(i)] = Len(StepWaits(i, LastStep(i))) + 1
          /\ res[i] = ParseJson(reply[i].body)

C5_RetryPolicy == \A i \in DOMAIN pc : C5_RetryPolicyOf(i)

C5_Witness ==
    \E i \in DOMAIN pc :
        /\ pc[i] = "done"
        /\ step[i] = "submit"
        /\ Len(StepWaits(i, "challenge")) = 4
        /\ sent[i]["challenge"] = 5
        /\ Len(StepWaits(i, "submit")) = max_retries
        /\ stats[i].error = ErrMaxRetries

(* C6: a 400 or 403 response is never retried: the step returns the parsed *)
(* response at once, sends no further request for that step, waits no      *)
(* backoff and leaves the retry counter unchanged.                         *)
C6_RejectionOf(i) ==
    /\ Handled(i) /\ ~reply'[i].fault /\ reply'[i].status \in {400, 403}
          => /\ pc'[i] # "backoff"
             /\ res'[i] = ParseJson(reply'[i].body)
             /\ stats'[i].retries = stats[i].retries
             /\ slept'[i] = slept[i]
             /\ sent'[i][step[i]] = sent[i][step[i]]
    /\ \A s \in StepNames :
          sent[i][s] > 0 /\ sent'[i][s] # sent[i][s]
              => pc[i] = "backoff" /\ step[i] = s /\ reply[i].status = 429

C6_RejectionNotRetried == [][\A i \in DOMAIN pc : C6_RejectionOf(i)]_vars

C6_Witness ==
    \E i \in DOMAIN pc :
        /\ pc[i] = "req"
        /\ step[i] = "submit"
        /\ reply[i].status = 403
        /\ res[i] = reply[i].body
        /\ sent[i]["challenge"] = 1
        /\ stats[i].retries = 0

(* C7: a status other than 200, 400, 403 and 429, or a transport fault,    *)
(* fails the step at once without retry: the outcome records it as its     *)
(* error, the session sends no further request and ends with               *)
(* success=false.                                                          *)
C7_FailureOf(i) ==
    /\ Handled(i) /\ (reply'[i].fault \/ reply'[i].status \notin {200, 400, 403, 429})
          => /\ pc'[i] = "done"
             /\ ~stats'[i].success
             /\ stats'[i].error = IF reply'[i].fault THEN ErrTransport ELSE ErrHttp
             /\ stats'[i].retries = stats[i].retries
             /\ slept'[i] = slept[i]
             /\ sent'[i] = sent[i]
    /\ pc[i] = "done"
          => pc'[i] = "done" /\ sent'[i] = sent[i] /\ stats'[i] = stats[i]

C7_FailureNotRetried == [][\A i \in DOMAIN pc : C7_FailureOf(i)]_vars

C7_Witness ==
    \E i \in DOMAIN pc :
        /\ pc[i] = "done"
        /\ step[i] = "submit"
        /\ reply[i].status = 500
        /\ stats[i].error = ErrHttp
        /\ sent[i] = [s \in StepNames |-> IF s = "enroll" THEN 0 ELSE 1]

(* C8: a failure of one session never aborts or changes a sibling session *)
(* and never makes run_test raise: whatever sessions fail, run_test        *)
(* collects exactly N outcome records and the summary covers all of them.  *)
Local(i) == <<pc[i], step[i], attempt[i], backoff[i], payload[i], reply[i],
              res[i], stats[i], sent[i], slept[i]>>

C8_Collected ==
    /\ phase \in Raised => DOMAIN pc = {}
    /\ phase = "done" =>
          /\ Len(results) = args.num_miners
          /\ summary.printed
          /\ summary.records = args.num_miners
          /\ summary.successes = Cardinality({i \in DOMAIN pc : stats[i].success})
          /\ summary.failures = Cardinality({i \in DOMAIN pc : ~stats[i].success})
          /\ summary.successes + summary.failures = args.num_miners

C8_Siblings ==
    \A i, j \in DOMAIN pc :
        (phase = "gather" /\ i # j /\ Local(i)' # Local(i)) => Local(j)' = Local(j)

C8_SessionFailureIsolated == []C8_Collected /\ [][C8_Siblings]_vars

C8_Witness ==
    /\ phase = "done"
    /\ args.num_miners = 2
    /\ \E i, j \in DOMAIN pc :
          /\ stats[i].error = ErrType
          /\ stats[j].success
    /\ summary.records = 2

(* C9: whatever the order in which the sessions complete, the outcome      *)
(* collection has the outcome of the session launched at index i at        *)
(* position i.                                                             *)
C9_LaunchOrder ==
    phase = "done" =>
        /\ Len(results) = args.num_miners
        /\ \A i \in DOMAIN pc :
              /\ results[i] = stats[i]
              /\ results[i].miner_id = SimId(i)

C9_Witness ==
    /\ phase = "done"
    /\ order = <<2, 1>>
    /\ results[1].miner_id = SimId(1)
    /\ results[1].success /\ ~results[2].success

(* C10: for N sessions and a duplicate ratio r > 0, run_test builds a plan *)
(* in which exactly floor(N*r) sessions share one forced identity and the  *)
(* others have pairwise distinct identities, different from the shared one. *)
PlannedId(i) == IF force_ids[i] # NoId THEN force_ids[i] ELSE SimId(i)

C10_DuplicatePlan ==
    (args.duplicate_pct > 0 /\ args.num_miners >= 2 /\ phase # "plan") =>
        /\ phase \notin Raised
        /\ DOMAIN force_ids = 1..args.num_miners
        /\ Cardinality({i \in DOMAIN force_ids : PlannedId(i) = base_id})
              = NumDupes(args.num_miners, args.duplicate_pct)
        /\ \A i, j \in DOMAIN force_ids :
              (i # j /\ PlannedId(i) # base_id) => PlannedId(i) # PlannedId(j)

----------------------------------------------------------------------------
(* C11: a session given a forced id takes it before its first request:    *)
(* from then on the simulator, the outcome record and the miner_id field  *)
(* of every submit and enroll payload it sends carry the forced id, and   *)
(* is_duplicate is true exactly for the sessions given a forced id.       *)

Requests(i) == sent[i]["challenge"] + sent[i]["submit"] + sent[i]["enroll"]

CarriesId(p, id) ==
    (p.type = "dict" /\ "miner_id" \in DOMAIN p.value) => p.value.miner_id = id

C11_ForcedIdOf(i) ==
    /\ pc[i] # "start" => (stats[i].is_duplicate <=> force_ids[i] # NoId)
    /\ force_ids[i] # NoId =>
          /\ Requests(i) > 0 => simulator[i].miner_id = force_ids[i]
          /\ pc[i] # "start" => stats[i].miner_id = force_ids[i]
          /\ step[i] \in {"submit", "enroll"} =>
                /\ CarriesId(payload[i], force_ids[i])
                /\ (step[i] = "enroll" \/ ~malformed_flags[i]) =>
                      payload[i].type = "dict" /\ "miner_id" \in DOMAIN payload[i].value

----------------------------------------------------------------------------
C15_CommitmentRoundTrip ==
    \A i \in DOMAIN pc :
        step[i] = "build_attestation_payload" =>
            /\ CommitmentReproducible(payload[i].value)
            /\ payload[i].value.nonce = payload[i].value.report.nonce

C15_Witness ==
    \E i \in DOMAIN pc :
        /\ step[i] = "build_attestation_payload"
        /\ payload[i].value.nonce = "nonce-2"
        /\ payload[i].value.miner = Wallet(i)
        /\ payload[i].value.report.derived.min_ns < payload[i].value.report.derived.max_ns
        /\ payload[i].value.report.commitment.kind = "sha256"

(* C12: with malformed mode on, the session at launch index i (from 0) is *)
(* flagged exactly when i mod 5 = 0; a flagged session submits a payload  *)
(* that breaks a structural invariant and an unflagged one a payload that *)
(* breaks none; with the mode off no session is flagged.                  *)
C12_MalformedPlan ==
    phase \in {"gather", "done"} =>
        \A i \in DOMAIN pc :
            /\ malformed_flags[i] <=> (args.test_malformed /\ (i - 1) % 5 = 0)
            /\ pc[i] # "start" => stats[i].is_malformed = malformed_flags[i]
            /\ sent[i]["submit"] > 0 =>
                  /\ step[i] = "submit" =>
                        (malformed_flags[i] <=> Violations(payload[i]) # {})
                  /\ step[i] = "enroll" => ~malformed_flags[i]

C12_Witness ==
    /\ args.num_miners = 10
    /\ phase = "gather"
    /\ malformed_flags[6] /\ ~malformed_flags[5] /\ ~malformed_flags[7]
    /\ pc[6] = "req" /\ step[6] = "submit"
    /\ Violations(payload[6]) = {"arch"}
    /\ pc[5] = "done" /\ sent[5]["submit"] = 1 /\ stats[5].success

(* C13: with epoch-boundary mode on, every session whose launch index     *)
(* (from 0) is above floor(N/2) sleeps 5 seconds before its first request *)
(* and every other session starts without delay; with the mode off no     *)
(* session sleeps.                                                        *)
C13_EpochDelay ==
    \A i \in DOMAIN pc :
        /\ pc[i] = "start" => Requests(i) = 0
        /\ pc[i] # "start" =>
              waited[i] = IF args.test_epoch_boundary /\ i - 1 > args.num_miners \div 2
                            THEN 5 ELSE 0

C13_Witness ==
    /\ args.num_miners = 10
    /\ args.test_epoch_boundary
    /\ phase = "gather"
    /\ pc[6] = "done" /\ waited[6] = 0
    /\ pc[7] = "req" /\ step[7] = "challenge" /\ waited[7] = 5

(* The total times of the outcomes, in ascending order. *)
Times == [k \in DOMAIN results |-> results[k].total_time]

Ascending == SortSeq(Times, LAMBDA a, b : a <= b)

MedianTwice ==
    IF Len(Times) % 2 = 1 THEN 2 * Ascending[(Len(Times) + 1) \div 2]
    ELSE Ascending[Len(Times) \div 2] + Ascending[(Len(Times) \div 2) + 1]

(* The 0-based index floor(count * N / 100) of the ascending times. *)
AtRank(n) == Ascending[((Len(Times) * n) \div 100) + 1]

(* C16 as stated: for every non-empty collection of total times the       *)
(* summary reports p50 as the median and p95, p99 as the values at index  *)
(* floor(count * N / 100) of the times sorted ascending.                  *)
C16_Percentiles ==
    (summary.printed /\ Len(Times) > 0) =>
        /\ summary.latency.lines = {"P50", "P95", "P99"}
        /\ summary.latency.p50x2 = MedianTwice
        /\ summary.latency.p95 = AtRank(95)
        /\ summary.latency.p99 = AtRank(99)

(* C16, amended: p50 is reported as the median for every non-empty        *)
(* collection; p95 and p99 are reported, as the values at index           *)
(* floor(count * N / 100) of the times sorted ascending, only for two or  *)
(* more total times, and for one total time they are left out; total      *)
(* times [1,2,3,4,5] give p50 = 3, p95 = 5 and p99 = 5.                   *)
C16_PercentilesOfTwoOrMore ==
    (summary.printed /\ Len(Times) > 0) =>
        /\ "P50" \in summary.latency.lines
        /\ summary.latency.p50x2 = MedianTwice
        /\ IF Len(Times) > 1
             THEN /\ summary.latency.lines = {"P50", "P95", "P99"}
                  /\ summary.latency.p95 = AtRank(95)
                  /\ summary.latency.p99 = AtRank(99)
             ELSE summary.latency.lines = {"P50"}
        /\ Ascending = <<1, 2, 3, 4, 5>> =>
              /\ summary.latency.p50x2 = 2 * 3
              /\ summary.latency.p95 = 5
              /\ summary.latency.p99 = 5

C16_Witness ==
    /\ summary.printed
    /\ Times = <<4, 2, 5, 1, 3>>
    /\ summary.latency.p50x2 = 6
    /\ summary.latency.p95 = 5

(* C17: the aggregation never ends in a division by zero, a run of zero   *)
(* sessions included, and the summary is still produced: once every       *)
(* session has been collected, run_test goes on to a printed summary.     *)
C17_NoDivisionFault ==
    /\ phase # "ZeroDivisionError"
    /\ phase = "done" => summary.printed /\ summary.total = args.num_miners

(* C18: a summary is printed and a report written only once all N         *)
(* sessions have ended; an interrupt that finds a session still waiting   *)
(* for the gate, awaiting a response or sleeping leaves the run without   *)
(* summary and without report, and after an interrupt no session sends    *)
(* another request.                                                       *)
Ended == DOMAIN pc = 1..args.num_miners /\ \A i \in DOMAIN pc : pc[i] = "done"

Interrupted == phase = "aborted" /\ \E i \in DOMAIN pc : pc[i] = "cancelled"

C18_Produced ==
    /\ summary.printed => Ended
    /\ phase = "reported" => summary.printed /\ Ended
    /\ Interrupted => ~summary.printed

C18_Quiet ==
    phase = "aborted" => (phase' = "aborted" /\ sent' = sent /\ summary' = summary)

C18_AbortSuppressesReport == []C18_Produced /\ [][C18_Quiet]_vars

C18_Witness ==
    /\ Interrupted
    /\ args.num_miners = 3
    /\ \E i, j, k \in DOMAIN pc :
          /\ pc[i] = "cancelled" /\ stats[i].retries = 1 /\ Requests(i) = 1
          /\ pc[j] = "cancelled" /\ stats[j] # NoStats /\ Requests(j) = 0
          /\ pc[k] = "cancelled" /\ stats[k] = NoStats /\ delay[k] = 5
    /\ semaphore = args.concurrency

(* C19: a run of 10 miners with concurrency 5, duplicate ratio 0.2 and    *)
(* malformed mode off, against a target that answers every request with   *)
(* 200 and ok true, raises nothing and ends with exactly 2 sessions of    *)
(* one shared forced identity, 10 successful outcomes and a success rate  *)
(* of 100%.                                                               *)
C19_EndToEnd ==
    (/\ args.num_miners = 10 /\ args.concurrency = 5
     /\ args.duplicate_pct = 20 /\ ~args.test_malformed) =>
        /\ phase \notin Raised
        /\ phase = "done" =>
              /\ Cardinality({i \in DOMAIN results : results[i].miner_id = base_id}) = 2
              /\ Cardinality({i \in DOMAIN results : results[i].is_duplicate}) = 2
              /\ Len(results) = 10
              /\ \A i \in DOMAIN results : results[i].success
              /\ summary.printed /\ summary.rate_pct = 100

(* C20 as stated: in a run of 10 miners with malformed mode on against    *)
(* the validating target, whatever corruption is chosen, the 2 flagged    *)
(* sessions end with success = true and the other 8 pass challenge,       *)
(* submit and enroll and end with success = true.                         *)
E2EMalformed ==
    /\ args.num_miners = 10 /\ args.test_malformed /\ args.duplicate_pct = 0
    /\ phase \in {"gather", "done"}

C26_SuccessXorError ==
    \A i \in DOMAIN pc :
        /\ stats[i].success => stats[i].error = NoError
        /\ stats[i].error # NoError => pc[i] = "done" /\ ~stats[i].success

C26_Witness ==
    \E i \in DOMAIN pc :
        /\ pc[i] = "done"
        /\ malformed_flags[i]
        /\ stats[i].success
        /\ stats[i].notes
        /\ Len(StepWaits(i, "challenge")) > 0
        /\ Len(StepWaits(i, "submit")) > 0
        /\ stats[i].error = NoError

(* C27: the attempt ceiling and the backoff belong to the step, the retry  *)
(* counter to the session: every step sends at most 5 requests and starts  *)
(* its backoff at the base delay again, a session sends at most 15         *)
(* requests, its retry counter never exceeds 13, and a session that        *)
(* succeeded has a retry counter of at most 12.                            *)
C27_PerStepCeilingOf(i) ==
    /\ \A s \in StepNames :
          /\ sent[i][s] <= 5
          /\ sent[i][s] = 1 /\ step[i] = s /\ pc[i] = "req" => backoff[i] = 2
          /\ Len(StepWaits(i, s)) > 0 => StepWaits(i, s)[1].secs = 2
    /\ Requests(i) <= 15
    /\ stats[i].retries <= 13
    /\ stats[i].success => stats[i].retries <= 12

C27_PerStepCeiling == \A i \in DOMAIN pc : C27_PerStepCeilingOf(i)

C27_Witness ==
    \E i \in DOMAIN pc :
        /\ pc[i] = "done"
        /\ Requests(i) = 15
        /\ stats[i].retries = 13
        /\ StepWaits(i, "enroll")[1].secs = 2
        /\ stats[i].error = ErrMaxRetries

(* C28: if the challenge step returns a response that carries no nonce (a  *)
(* 400 or 403 rejection body, a 200 body without a nonce), the session     *)
(* sends neither a submit nor an enroll request and ends with              *)
(* success=false, in normal and in malformed mode.                         *)
NoNonce(v) == v.json # "dict" \/ "nonce" \notin v.keys

C28_NoNonceOf(i) ==
    ( /\ Handled(i)
      /\ step[i] = "challenge"
      /\ ~reply'[i].fault
      /\ reply'[i].status \in {200, 400, 403}
      /\ NoNonce(reply'[i].body) )
        => /\ pc'[i] = "done"
           /\ ~stats'[i].success
           /\ sent'[i]["submit"] = 0
           /\ sent'[i]["enroll"] = 0

C28_NoNonceEndsSession ==
    [][\A i \in DOMAIN pc :
          /\ C28_NoNonceOf(i)
          /\ pc[i] = "done" => pc'[i] = "done" /\ sent'[i] = sent[i]
                                /\ stats'[i] = stats[i]]_vars

C28_Witness ==
    \E i \in DOMAIN pc :
        /\ pc[i] = "done"
        /\ malformed_flags[i]
        /\ step[i] = "challenge"
        /\ reply[i].status = 200
        /\ reply[i].body = BodyOk
        /\ stats[i].error = ErrType
        /\ ~stats[i].success
        /\ Requests(i) = sent[i]["challenge"]

(* C29, as the specification states it: every session that ended with      *)
(* success=false has an error recorded, in normal and in malformed mode.   *)
C29_FailureHasError ==
    \A i \in DOMAIN pc :
        pc[i] = "done" /\ ~stats[i].success => stats[i].error # NoError

(* C29, as the code has it: a session that ended with success=false has an *)
(* error recorded unless its last step returned a body and lines 39-63     *)
(* let it go unnamed: an empty body at any step, or the answer ok to the   *)
(* payload of a malformed session.                                         *)
Unnamed(i) ==
    /\ ~reply[i].fault
    /\ reply[i].status \in {200, 400, 403}
    /\ res[i] = reply[i].body
    /\ \/ res[i] = BodyEmpty
       \/ malformed_flags[i] /\ step[i] = "submit" /\ Truthy(res[i]) /\ GetOk(res[i])

C29_FailureHasErrorUnlessUnnamed ==
    \A i \in DOMAIN pc :
        pc[i] = "done" /\ ~stats[i].success =>
            (stats[i].error = NoError <=> Unnamed(i))

C29_Witness ==
    \E i, j \in DOMAIN pc :
        /\ pc[i] = "done"
        /\ ~stats[i].success
        /\ malformed_flags[i]
        /\ step[i] = "submit"
        /\ reply[i].body = BodyOk
        /\ stats[i].error = NoError
        /\ stats[j].retries > 0

(* C25: a session holds its permit from before its first request until its *)
(* outcome is final, every 429 backoff included, and takes the epoch delay *)
(* before it acquires the permit: at most C sessions are between their     *)
(* first request and their end, and a session sleeping in the epoch delay  *)
(* holds no permit.                                                        *)
Underway == {i \in DOMAIN pc : Requests(i) > 0 /\ pc[i] \notin {"done", "cancelled"}}

Sleeping == {i \in DOMAIN pc : pc[i] = "start" /\ delay[i] > 0}

C25_PermitHeldThroughout ==
    /\ Cardinality(Underway) <= args.concurrency
    /\ semaphore + Cardinality(Underway) = args.concurrency
    /\ \A i \in DOMAIN pc :
          /\ pc[i] = "backoff" => i \in Underway
          /\ i \in Sleeping => i \notin Underway /\ waited[i] = 0
          /\ i \in Underway => waited[i] = delay[i]

C25_Witness ==
    /\ semaphore = 0
    /\ \E i, j, k \in DOMAIN pc :
          /\ i \in Sleeping
          /\ pc[j] = "backoff"
          /\ pc[k] = "gate"

(* C21: under fair scheduling and answered requests, for every N, every    *)
(* capacity C >= 1 and every pattern of responses, every launched session  *)
(* reaches a terminal outcome and run_test hands the complete outcome      *)
(* collection to the aggregator exactly once, never before all N sessions  *)
(* have ended; no session waits for the gate forever.  Stated on finite    *)
(* runs: run_test is never left with anything but the N outcomes of N      *)
(* ended sessions handed over.                                             *)
HandedOver == phase \in {"done", "ZeroDivisionError"}

C21_LeftOnlyByHandover ==
    /\ phase \notin {"plan", "gather"} => HandedOver
    /\ HandedOver => Ended /\ Len(results) = args.num_miners

(* What holds of C21: run_test hands over exactly once, after all sessions *)
(* ended, and in a run without forced duplicates it always gets there and  *)
(* no session is left at the gate or inside it.                            *)
C21_HandoverOnce ==
    [][/\ HandedOver' /\ ~HandedOver => Ended /\ Len(results') = args.num_miners
       /\ HandedOver => results' = results /\ HandedOver']_vars

At(i, places) == IF i \in DOMAIN pc THEN pc[i] \in places ELSE FALSE

C21_TerminatesWithoutDuplicates ==
    args.duplicate_pct = 0 =>
        /\ <>HandedOver
        /\ \A i \in 1..MaxMiners :
              [](At(i, {"start", "gate", "req", "backoff"}) => <>At(i, {"done"}))

(* C22: the total elapsed time is recorded on every exit path taken after  *)
(* the gate is acquired (success, early return after a failed step,        *)
(* rejection, exception) and covers the interval from session start to     *)
(* session end, every backoff wait included: in every finalized outcome    *)
(* total_time >= sum of the recorded step times + sum of the backoff waits *)
(* slept by the session.                                                   *)
StepSeconds(st) ==
    Sum([k \in DOMAIN Steps |->
            IF Steps[k] \in DOMAIN st.steps THEN st.steps[Steps[k]] ELSE 0])

BackoffSeconds(i) == Sum([k \in DOMAIN slept[i] |-> slept[i][k].secs])

C22_TotalTimeOf(i) ==
    /\ stats[i].total_time = clock[i]
    /\ stats[i].total_time > 0
    /\ stats[i].total_time >= StepSeconds(stats[i]) + BackoffSeconds(i)

C22_TotalTimeCoversSession ==
    \A i \in DOMAIN pc : pc[i] = "done" => C22_TotalTimeOf(i)

C22_Witness ==
    \E i, j \in DOMAIN pc :
        /\ pc[i] = "done"
        /\ stats[i].error = ErrType
        /\ Len(slept[i]) > 1
        /\ stats[i].total_time > StepSeconds(stats[i]) + BackoffSeconds(i)
        /\ BackoffSeconds(j) > StepSeconds(stats[j])

(* C23: an outcome's step map has an entry for a step only if the session  *)
(* reached that step; a session that ended before a step has no entry for  *)
(* it, not a zero; and the per-step mean of the summary is taken over the  *)
(* sessions that have an entry for the step, and over no others.           *)
Having(s) == {k \in DOMAIN results : s \in DOMAIN results[k].steps}

SecondsOf(s, ks) ==
    Sum([k \in DOMAIN results |-> IF k \in ks THEN results[k].steps[s] ELSE 0])

C23_EntriesOf(i) ==
    \A s \in StepNames :
        /\ s \in DOMAIN stats[i].steps => sent[i][s] > 0 /\ stats[i].steps[s] > 0
        /\ sent[i][s] = 0 => s \notin DOMAIN stats[i].steps

C23_StepEntries ==
    /\ \A i \in DOMAIN pc : C23_EntriesOf(i)
    /\ summary.printed =>
          \A s \in StepNames :
              /\ summary.step_avg[s].n = Cardinality(Having(s))
              /\ summary.step_avg[s].sum = SecondsOf(s, Having(s))
              /\ summary.step_avg[s].printed <=> Having(s) # {}

C23_Witness ==
    /\ summary.printed
    /\ summary.step_avg["challenge"].n = args.num_miners
    /\ summary.step_avg["enroll"].n > 0
    /\ summary.step_avg["enroll"].n < summary.step_avg["submit"].n
    /\ \E k \in DOMAIN results :
          /\ ~results[k].success
          /\ DOMAIN results[k].steps = {"challenge", "submit"}

(* C24: the error table groups exactly the sessions with success=false by  *)
(* their recorded error string, each counted once, lists the groups in     *)
(* descending order of count and reports at most the top 5; a session with *)
(* success=true never contributes.                                         *)
Failed == {k \in DOMAIN results : ~results[k].success}

Recorded(k) == IF results[k].error = NoError THEN "Unknown error" ELSE results[k].error

Group(e) == {k \in Failed : Recorded(k) = e}

Groups == {Recorded(k) : k \in Failed}

Listed == {summary.errors[a].err : a \in DOMAIN summary.errors}

C24_ErrorTable ==
    summary.printed =>
        LET rows == summary.errors IN
        /\ Len(rows) = IF Cardinality(Groups) < 5 THEN Cardinality(Groups) ELSE 5
        /\ \A a \in DOMAIN rows :
              /\ rows[a].err \in Groups
              /\ rows[a].count = Cardinality(Group(rows[a].err))
        /\ \A a, b \in DOMAIN rows :
              a < b => rows[a].count >= rows[b].count /\ rows[a].err # rows[b].err
        /\ \A e \in Groups \ Listed :
              \A a \in DOMAIN rows : Cardinality(Group(e)) <= rows[a].count

C24_Witness ==
    /\ summary.printed
    /\ Cardinality(Groups) = 6
    /\ Len(summary.errors) = 5
    /\ summary.errors[1].count = 2
    /\ summary.errors[5].count = 1
    /\ summary.errors[2].err = "Unknown error"
    /\ \E k \in DOMAIN results : results[k].success

====
